---------------------------- MODULE Spec2Model ----------------------------
(***************************************************************************)
(* A model of the in-memory to-do list: the Task record (Task.js) and the  *)
(* TodoListManager (TodoListManager.js).                                   *)
(*                                                                         *)
(* JavaScript values are records [t, s, n]: t is the typeof tag, s the     *)
(* characters of a string, n the value of a number.  Task objects live in  *)
(* a heap and are named by address, so that two arrays can hold the same   *)
(* Task object.                                                            *)
(***************************************************************************)
EXTENDS Integers, Sequences, FiniteSets, TLC

\* Number of successful addTask calls in a run.
MaxAdds == 2

\* The id of the Task a caller builds by hand and pushes onto a returned array.
ForeignId == 99

---------------------------------------------------------------------------
\* JavaScript values

Undefined == [t |-> "undefined", s |-> <<>>, n |-> 0]

Num(k) == [t |-> "number", s |-> <<>>, n |-> k]

Str(cs) == [t |-> "string", s |-> cs, n |-> 0]

\* ToBoolean: undefined, 0 and "" are falsy.
Truthy(v) ==
    CASE v.t = "string" -> v.s # <<>>
      [] v.t = "number" -> v.n # 0
      [] OTHER -> FALSE

WhiteSpace == {" ", "\t", "\n"}

Digits == {"0", "1", "2", "3", "4", "5", "6", "7", "8", "9"}

DigitChar == <<"0", "1", "2", "3", "4", "5", "6", "7", "8", "9">>

RECURSIVE TrimStart(_)
TrimStart(cs) ==
    IF cs # <<>> /\ Head(cs) \in WhiteSpace THEN TrimStart(Tail(cs)) ELSE cs

RECURSIVE TrimEnd(_)
TrimEnd(cs) ==
    IF cs # <<>> /\ cs[Len(cs)] \in WhiteSpace
    THEN TrimEnd(SubSeq(cs, 1, Len(cs) - 1))
    ELSE cs

\* String.prototype.trim
Trim(cs) == TrimEnd(TrimStart(cs))

RECURSIVE NumToStr(_)
NumToStr(k) ==
    IF k < 10 THEN <<DigitChar[k + 1]>>
    ELSE NumToStr(k \div 10) \o <<DigitChar[(k % 10) + 1]>>

\* ToString, as RegExp.prototype.test applies it to its argument.
ToStr(v) ==
    CASE v.t = "string" -> v.s
      [] v.t = "number" -> NumToStr(v.n)
      [] OTHER -> <<"u", "n", "d", "e", "f", "i", "n", "e", "d">>

\* /^\d{4}-\d{2}-\d{2}$/.test(cs)
DatePattern(cs) ==
    /\ Len(cs) = 10
    /\ \A i \in 1..10 : IF i \in {5, 8} THEN cs[i] = "-" ELSE cs[i] \in Digits


---------------------------------------------------------------------------
\* Task (Task.js)

NoError == "none"

ErrDescription == "Task description cannot be empty."

ErrDueDate == "Invalid or missing due date. Expected format YYYY-MM-DD."

ErrNewDescription == "New task description cannot be empty."

ErrNewDueDate == "Invalid or missing new due date. Expected format YYYY-MM-DD."

ErrNotFound == "Task with ID not found."

ErrFilter == "Invalid filter status."

ErrType == "TypeError"

\* !description || typeof description !== 'string' || description.trim() === ''
DescriptionRejected(description) ==
    \/ ~Truthy(description)
    \/ description.t # "string"
    \/ Trim(description.s) = <<>>

\* !dueDate || !/^\d{4}-\d{2}-\d{2}$/.test(dueDate)
DueDateRejected(dueDate) ==
    \/ ~Truthy(dueDate)
    \/ ~DatePattern(ToStr(dueDate))

\* The error the constructor throws, NoError when it throws none.
TaskCtorError(description, dueDate) ==
    IF DescriptionRejected(description) THEN ErrDescription
    ELSE IF DueDateRejected(dueDate) THEN ErrDueDate
    ELSE NoError

\* Mutant of TaskCtor: the description is stored as given, not trimmed.
TaskCtorNoTrim(id, description, dueDate) ==
    [id |-> id,
     description |-> description,
     dueDate |-> dueDate,
     completed |-> FALSE]

\* new Task(id, description, dueDate), for arguments the constructor accepts.
TaskCtor(id, description, dueDate) ==
    [id |-> id,
     description |-> Str(Trim(description.s)),
     dueDate |-> dueDate,
     completed |-> FALSE]

markComplete(task) == [task EXCEPT !.completed = TRUE]

markIncomplete(task) == [task EXCEPT !.completed = FALSE]

updateDescriptionError(newDescription) ==
    IF DescriptionRejected(newDescription) THEN ErrNewDescription ELSE NoError

\* Mutant of updateDescription: the new description is stored untrimmed.
updateDescriptionNoTrim(task, newDescription) ==
    [task EXCEPT !.description = newDescription]

updateDescription(task, newDescription) ==
    [task EXCEPT !.description = Str(Trim(newDescription.s))]

updateDueDateError(newDueDate) ==
    IF DueDateRejected(newDueDate) THEN ErrNewDueDate ELSE NoError

updateDueDate(task, newDueDate) == [task EXCEPT !.dueDate = newDueDate]

---------------------------------------------------------------------------
\* TodoListManager (TodoListManager.js), as functions of the state m =
\* [heap, created, tasks, nextId]: heap maps the address of each live Task
\* object to its fields, created counts the Task objects made so far (the
\* next object's address is created + 1), tasks is this.tasks (a sequence of
\* addresses) and nextId is this.nextId.  Each function gives the state
\* after the call and what the call returned or threw.

Range(seq) == {seq[i] : i \in 1..Len(seq)}

Threw(m, error) ==
    [m |-> m, error |-> error, returned |-> "none", task |-> 0,
     items |-> <<>>, shared |-> FALSE]

ReturnedTask(m, a) ==
    [m |-> m, error |-> NoError, returned |-> "task", task |-> a,
     items |-> <<>>, shared |-> FALSE]

ReturnedArray(m, items) ==
    [m |-> m, error |-> NoError, returned |-> "array", task |-> 0,
     items |-> items, shared |-> FALSE]

ReturnedTrue(m) ==
    [m |-> m, error |-> NoError, returned |-> "true", task |-> 0,
     items |-> <<>>, shared |-> FALSE]

\* Mutant of addTask: the id is taken from the length of the collection.
addTaskIdFromLength(m, description, dueDate) ==
    IF TaskCtorError(description, dueDate) # NoError
    THEN Threw(m, TaskCtorError(description, dueDate))
    ELSE LET a == m.created + 1
             newTask == TaskCtor(Len(m.tasks) + 1, description, dueDate)
         IN  ReturnedTask([heap |-> (a :> newTask) @@ m.heap,
                           created |-> a,
                           tasks |-> Append(m.tasks, a),
                           nextId |-> m.nextId + 1],
                          a)

\* Mutant of addTask: the counter is raised before the Task is constructed.
addTaskCountsFirst(m, description, dueDate) ==
    IF TaskCtorError(description, dueDate) # NoError
    THEN Threw([m EXCEPT !.nextId = @ + 1], TaskCtorError(description, dueDate))
    ELSE LET a == m.created + 1
             newTask == TaskCtor(m.nextId, description, dueDate)
         IN  ReturnedTask([heap |-> (a :> newTask) @@ m.heap,
                           created |-> a,
                           tasks |-> Append(m.tasks, a),
                           nextId |-> m.nextId + 1],
                          a)

\* Mutant of addTask: the new task is put first (unshift), not last.
addTaskUnshift(m, description, dueDate) ==
    IF TaskCtorError(description, dueDate) # NoError
    THEN Threw(m, TaskCtorError(description, dueDate))
    ELSE LET a == m.created + 1
             newTask == TaskCtor(m.nextId, description, dueDate)
         IN  ReturnedTask([heap |-> (a :> newTask) @@ m.heap,
                           created |-> a,
                           tasks |-> <<a>> \o m.tasks,
                           nextId |-> m.nextId + 1],
                          a)

addTask(m, description, dueDate) ==
    IF TaskCtorError(description, dueDate) # NoError
    THEN Threw(m, TaskCtorError(description, dueDate))
    ELSE LET a == m.created + 1
             newTask == TaskCtor(m.nextId, description, dueDate)
         IN  ReturnedTask([heap |-> (a :> newTask) @@ m.heap,
                           created |-> a,
                           tasks |-> Append(m.tasks, a),
                           nextId |-> m.nextId + 1],
                          a)

\* this.tasks.findIndex(task => task.id === taskId): 0 stands for -1.
findIndex(m, taskId) ==
    LET hits == {i \in 1..Len(m.tasks) : Num(m.heap[m.tasks[i]].id) = taskId}
    IN  IF hits = {} THEN 0
        ELSE CHOOSE i \in hits : \A j \in hits : i <= j

\* _findTaskById: the address of the Task, 0 for undefined.
findTaskById(m, taskId) ==
    IF taskId.t # "number" THEN 0
    ELSE IF findIndex(m, taskId) = 0 THEN 0
    ELSE m.tasks[findIndex(m, taskId)]

markTaskComplete(m, taskId) ==
    LET a == findTaskById(m, taskId)
    IN  IF a = 0 THEN Threw(m, ErrNotFound)
        ELSE ReturnedTask([m EXCEPT !.heap[a] = markComplete(@)], a)

\* Mutant of markTaskIncomplete: it calls task.markComplete().
markTaskIncompleteCompletes(m, taskId) ==
    LET a == findTaskById(m, taskId)
    IN  IF a = 0 THEN Threw(m, ErrNotFound)
        ELSE ReturnedTask([m EXCEPT !.heap[a] = markComplete(@)], a)

markTaskIncomplete(m, taskId) ==
    LET a == findTaskById(m, taskId)
    IN  IF a = 0 THEN Threw(m, ErrNotFound)
        ELSE ReturnedTask([m EXCEPT !.heap[a] = markIncomplete(@)], a)

\* String.prototype.toLowerCase, on the filters callers pass
ToLowerCase(str) ==
    CASE str = "Completed" -> "completed"
      [] OTHER -> str

\* Mutant of listTasks: 'all' returns this.tasks itself, not a copy.
listTasksNoCopy(m, filterStatus) ==
    LET f == IF filterStatus.given THEN filterStatus
             ELSE [given |-> TRUE, isString |-> TRUE, str |-> "all"]
        IsCompleted(a) == m.heap[a].completed
        IsPending(a) == ~m.heap[a].completed
    IN  IF ~f.isString THEN Threw(m, ErrType)
        ELSE CASE ToLowerCase(f.str) = "all" ->
                      [ReturnedArray(m, m.tasks) EXCEPT !.shared = TRUE]
               [] ToLowerCase(f.str) = "completed" ->
                      ReturnedArray(m, SelectSeq(m.tasks, IsCompleted))
               [] ToLowerCase(f.str) = "pending" ->
                      ReturnedArray(m, SelectSeq(m.tasks, IsPending))
               [] OTHER -> Threw(m, ErrFilter)

\* Mutant of listTasks: 'pending' keeps the tasks that are completed too.
listTasksPendingAll(m, filterStatus) ==
    LET f == IF filterStatus.given THEN filterStatus
             ELSE [given |-> TRUE, isString |-> TRUE, str |-> "all"]
        IsCompleted(a) == m.heap[a].completed
    IN  IF ~f.isString THEN Threw(m, ErrType)
        ELSE CASE ToLowerCase(f.str) = "all" -> ReturnedArray(m, m.tasks)
               [] ToLowerCase(f.str) = "completed" ->
                      ReturnedArray(m, SelectSeq(m.tasks, IsCompleted))
               [] ToLowerCase(f.str) = "pending" -> ReturnedArray(m, m.tasks)
               [] OTHER -> Threw(m, ErrFilter)

\* filterStatus is [given, isString, str]: an argument left out takes the
\* default 'all'; a value with no toLowerCase method makes the call throw.
listTasks(m, filterStatus) ==
    LET f == IF filterStatus.given THEN filterStatus
             ELSE [given |-> TRUE, isString |-> TRUE, str |-> "all"]
        IsCompleted(a) == m.heap[a].completed
        IsPending(a) == ~m.heap[a].completed
    IN  IF ~f.isString THEN Threw(m, ErrType)
        ELSE CASE ToLowerCase(f.str) = "all" -> ReturnedArray(m, m.tasks)
               [] ToLowerCase(f.str) = "completed" ->
                      ReturnedArray(m, SelectSeq(m.tasks, IsCompleted))
               [] ToLowerCase(f.str) = "pending" ->
                      ReturnedArray(m, SelectSeq(m.tasks, IsPending))
               [] OTHER -> Threw(m, ErrFilter)

\* this.tasks.splice(taskIndex, 1)
Splice(seq, i) == SubSeq(seq, 1, i - 1) \o SubSeq(seq, i + 1, Len(seq))

\* Mutant of deleteTask: splice(taskIndex), which removes to the end.
deleteTaskSpliceToEnd(m, taskId) ==
    LET i == findIndex(m, taskId)
    IN  IF i = 0 THEN Threw(m, ErrNotFound)
        ELSE ReturnedTrue([m EXCEPT !.tasks = SubSeq(@, 1, i - 1)])

\* Mutant of deleteTask: no check of the index, so that splice(-1, 1)
\* removes the last task when the id is not found.
deleteTaskUnchecked(m, taskId) ==
    LET i == findIndex(m, taskId)
    IN  IF i = 0
        THEN ReturnedTrue([m EXCEPT !.tasks = SubSeq(@, 1, Len(@) - 1)])
        ELSE ReturnedTrue([m EXCEPT !.tasks = Splice(@, i)])

deleteTask(m, taskId) ==
    LET i == findIndex(m, taskId)
    IN  IF i = 0 THEN Threw(m, ErrNotFound)
        ELSE ReturnedTrue([m EXCEPT !.tasks = Splice(@, i)])

\* Mutant of updateTask: the dueDate is applied before the description.
updateTaskDueDateFirst(m, taskId, updates) ==
    LET a == findTaskById(m, taskId)
        hasDescription == "description" \in updates.has
        hasDueDate == "dueDate" \in updates.has
        m1 == IF hasDueDate
              THEN [m EXCEPT !.heap[a] = updateDueDate(@, updates.dueDate)]
              ELSE m
        m2 == IF hasDescription
              THEN [m1 EXCEPT !.heap[a] = updateDescription(@, updates.description)]
              ELSE m1
    IN  IF a = 0 THEN Threw(m, ErrNotFound)
        ELSE IF ~updates.obj THEN Threw(m, ErrType)
        ELSE IF hasDueDate /\ updateDueDateError(updates.dueDate) # NoError
        THEN Threw(m, updateDueDateError(updates.dueDate))
        ELSE IF hasDescription /\ updateDescriptionError(updates.description) # NoError
        THEN Threw(m1, updateDescriptionError(updates.description))
        ELSE ReturnedTask(m2, a)

\* updates is [obj, has, description, dueDate]: has holds the names of the
\* object's own properties; obj is FALSE for a call that passes no object.
updateTask(m, taskId, updates) ==
    LET a == findTaskById(m, taskId)
        hasDescription == "description" \in updates.has
        hasDueDate == "dueDate" \in updates.has
        \* the state once task.updateDescription has returned
        m1 == IF hasDescription
              THEN [m EXCEPT !.heap[a] = updateDescription(@, updates.description)]
              ELSE m
        \* the state once task.updateDueDate has returned
        m2 == IF hasDueDate
              THEN [m1 EXCEPT !.heap[a] = updateDueDate(@, updates.dueDate)]
              ELSE m1
    IN  IF a = 0 THEN Threw(m, ErrNotFound)
        ELSE IF ~updates.obj THEN Threw(m, ErrType)
        ELSE IF hasDescription /\ updateDescriptionError(updates.description) # NoError
        THEN Threw(m, updateDescriptionError(updates.description))
        ELSE IF hasDueDate /\ updateDueDateError(updates.dueDate) # NoError
        THEN Threw(m1, updateDueDateError(updates.dueDate))
        ELSE ReturnedTask(m2, a)

---------------------------------------------------------------------------
\* What callers pass

\* Descriptions: missing, not text, empty, whitespace only, and texts with
\* and without whitespace around and inside them.
DescriptionInputs ==
    {Undefined, Num(5), Str(<<>>), Str(<<" ", "\t">>),
     Str(<<" ", "a", "\n">>), Str(<<"a", " ", "b">>)}

Date1 == <<"2", "0", "2", "4", "-", "0", "8", "-", "1", "5">>

Date2 == <<"2", "0", "2", "5", "-", "1", "3", "-", "4", "0">>

DueDateInputs ==
    {Undefined, Num(20240815), Str(Date1), Str(Date2),
     Str(<<"2", "0", "2", "4", "/", "1", "2", "/", "3", "1">>),
     Str(Date1 \o <<" ">>)}

IdInputs == {Num(k) : k \in 1..MaxAdds} \cup {Str(<<"1">>)}

FilterInputs ==
    {[given |-> FALSE, isString |-> FALSE, str |-> ""],
     [given |-> TRUE, isString |-> FALSE, str |-> ""]}
    \cup {[given |-> TRUE, isString |-> TRUE, str |-> f] :
            f \in {"all", "completed", "pending", "Completed", "urgent"}}

\* What updateTask is given as new values: some accepted, some rejected.
NewDescriptionInputs ==
    {Str(<<>>), Str(<<" ", "a", "\n">>), Str(<<"a", " ", "b">>)}

NewDueDateInputs == {Str(Date1), Str(Date2), Str(Date1 \o <<" ">>)}

UpdatesInputs ==
    {[obj |-> FALSE, has |-> {}, description |-> Undefined, dueDate |-> Undefined]}
    \cup {[obj |-> TRUE, has |-> h,
           description |-> IF "description" \in h THEN d ELSE Undefined,
           dueDate |-> IF "dueDate" \in h THEN dd ELSE Undefined] :
            h \in SUBSET {"description", "dueDate"},
            d \in NewDescriptionInputs, dd \in NewDueDateInputs}

---------------------------------------------------------------------------
\* The program's state

VARIABLES
    heap,     \* the live Task objects, by address
    created,  \* how many Task objects the manager has created
    tasks,    \* manager.tasks: the addresses of its Task objects, in order
    nextId,   \* manager.nextId
    last,     \* the last call: what it was, and what it returned or threw
    issued    \* the ids of the tasks addTask has returned so far

vars == <<heap, created, tasks, nextId, last, issued>>

Mgr == [heap |-> heap, created |-> created, tasks |-> tasks, nextId |-> nextId]

\* The address of the one Task object the caller creates itself (the
\* manager's objects have the addresses 1, 2, ...; 0 stands for no object).
CallerObject == -1

\* The objects a caller can still reach: those of the manager, and those of
\* the value the last call returned.
Live(h, ts, items, task) ==
    [a \in (DOMAIN h) \cap (Range(ts) \cup Range(items) \cup {task}) |-> h[a]]

Call(op, taskId, has, r) ==
    /\ tasks' = r.m.tasks
    /\ nextId' = r.m.nextId
    /\ created' = r.m.created
    /\ heap' = Live(r.m.heap, r.m.tasks, r.items, r.task)
    /\ issued' = IF op = "addTask" /\ r.returned = "task"
                 THEN issued \cup {r.m.heap[r.task].id}
                 ELSE issued
    /\ last' = [op |-> op, id |-> taskId, has |-> has, error |-> r.error,
                returned |-> r.returned, task |-> r.task, items |-> r.items,
                shared |-> r.shared, caller |-> "none", callerError |-> NoError]

\* const manager = new TodoListManager()
Init ==
    /\ heap = <<>>
    /\ created = 0
    /\ tasks = <<>>
    /\ nextId = 1
    /\ issued = {}
    /\ last = [op |-> "new", id |-> Undefined, has |-> {}, error |-> NoError,
               returned |-> "none", task |-> 0, items |-> <<>>,
               shared |-> FALSE, caller |-> "none", callerError |-> NoError]

AddTask(description, dueDate) ==
    /\ TaskCtorError(description, dueDate) = NoError => created < MaxAdds
    /\ Call("addTask", Undefined, {}, addTask(Mgr, description, dueDate))

MarkTaskComplete(taskId) ==
    /\ Call("markTaskComplete", taskId, {}, markTaskComplete(Mgr, taskId))

MarkTaskIncomplete(taskId) ==
    /\ Call("markTaskIncomplete", taskId, {}, markTaskIncomplete(Mgr, taskId))

ListTasks(filterStatus) ==
    /\ Call("listTasks", Undefined, {}, listTasks(Mgr, filterStatus))

DeleteTask(taskId) ==
    /\ Call("deleteTask", taskId, {}, deleteTask(Mgr, taskId))

UpdateTask(taskId, updates) ==
    /\ Call("updateTask", taskId, updates.has, updateTask(Mgr, taskId, updates))

\* The caller's own code: one statement on the array the last listTasks
\* returned (this.tasks itself when that array is shared) before the next
\* call of the manager.

Intruder == TaskCtor(ForeignId, Str(<<"a">>), Str(Date1))

Held(items) ==
    /\ tasks' = IF last.shared THEN items ELSE tasks
    /\ UNCHANGED <<nextId, created, issued>>

Holding == last.returned = "array" /\ last.caller = "none"

\* tasks.push(new Task(99, ...))
CallerPush ==
    /\ Holding
    /\ LET items == Append(last.items, CallerObject)
       IN  /\ Held(items)
           /\ heap' = (CallerObject :> Intruder) @@ heap
           /\ last' = [last EXCEPT !.items = items, !.caller = "push",
                                   !.callerError = NoError]

\* tasks.pop()
CallerPop ==
    /\ Holding
    /\ last.items # <<>>
    /\ LET items == SubSeq(last.items, 1, Len(last.items) - 1)
       IN  /\ Held(items)
           /\ heap' = Live(heap, tasks', items, 0)
           /\ last' = [last EXCEPT !.items = items, !.caller = "pop",
                                   !.callerError = NoError]

TaskMethods == {"markComplete", "markIncomplete", "updateDescription", "updateDueDate"}

MethodInputs(method) ==
    CASE method = "updateDescription" -> DescriptionInputs
      [] method = "updateDueDate" -> DueDateInputs
      [] OTHER -> {Undefined}

\* The error tasks[i].method(arg) throws, NoError when it throws none.
InvokeError(method, arg) ==
    CASE method = "updateDescription" -> updateDescriptionError(arg)
      [] method = "updateDueDate" -> updateDueDateError(arg)
      [] OTHER -> NoError

Invoke(task, method, arg) ==
    CASE InvokeError(method, arg) # NoError -> task
      [] method = "markComplete" -> markComplete(task)
      [] method = "markIncomplete" -> markIncomplete(task)
      [] method = "updateDescription" -> updateDescription(task, arg)
      [] method = "updateDueDate" -> updateDueDate(task, arg)

\* tasks[i].method(arg), on an element of the returned array
CallerInvoke(i, method, arg) ==
    /\ Holding
    /\ i \in 1..Len(last.items)
    /\ heap' = [heap EXCEPT ![last.items[i]] = Invoke(@, method, arg)]
    /\ last' = [last EXCEPT !.caller = method,
                            !.callerError = InvokeError(method, arg)]
    /\ UNCHANGED <<tasks, nextId, created, issued>>

Next ==
    \/ \E d \in DescriptionInputs, dd \in DueDateInputs : AddTask(d, dd)
    \/ \E id \in IdInputs : MarkTaskComplete(id)
    \/ \E id \in IdInputs : MarkTaskIncomplete(id)
    \/ \E f \in FilterInputs : ListTasks(f)
    \/ \E id \in IdInputs : DeleteTask(id)
    \/ \E id \in IdInputs, u \in UpdatesInputs : UpdateTask(id, u)
    \/ CallerPush
    \/ CallerPop
    \/ \E i \in 1..MaxAdds, method \in TaskMethods :
          \E arg \in MethodInputs(method) : CallerInvoke(i, method, arg)

Spec == Init /\ [][Next]_vars

---------------------------------------------------------------------------
\* What the properties below speak of

\* The fields of the manager's tasks, in the order of this.tasks.
Records(m) == [i \in 1..Len(m.tasks) |-> m.heap[m.tasks[i]]]

\* The manager's own state: its task sequence, every task's fields, its counter.
SameManager(m1, m2) ==
    /\ m2.tasks = m1.tasks
    /\ Records(m2) = Records(m1)
    /\ m2.nextId = m1.nextId

MutatingOps ==
    {"addTask", "markTaskComplete", "markTaskIncomplete", "deleteTask", "updateTask"}

\* The step is a call of the manager's operation op.
Called(op) == last'.caller = "none" /\ last'.op = op

\* A description the specification accepts: text with a character that is
\* not whitespace.
ValidDescription(d) ==
    d.t = "string" /\ \E i \in 1..Len(d.s) : d.s[i] \notin WhiteSpace

\* A due date the specification accepts: text of the form YYYY-MM-DD.
ValidDueDate(dd) == dd.t = "string" /\ DatePattern(dd.s)

ValidAddInputs ==
    {v \in DescriptionInputs \X DueDateInputs :
        ValidDescription(v[1]) /\ ValidDueDate(v[2])}

\* taskId is the id of a task of the collection.
Present(m, taskId) ==
    taskId.t = "number" /\ \E i \in 1..Len(m.tasks) : m.heap[m.tasks[i]].id = taskId.n

\* seq without the elements outside S, in the order of seq
RECURSIVE Restrict(_, _)
Restrict(seq, S) ==
    IF seq = <<>> THEN <<>>
    ELSE IF Head(seq) \in S THEN <<Head(seq)>> \o Restrict(Tail(seq), S)
    ELSE Restrict(Tail(seq), S)

---------------------------------------------------------------------------
\* C1 as stated: a mutating operation that raises an error leaves the task
\* sequence, every task's fields and the counter exactly as before the call.
C1_AllOrNothing ==
    [][(last'.caller = "none" /\ last'.op \in MutatingOps /\ last'.error # NoError)
          => SameManager(Mgr, Mgr')]_vars

\* C1 amended: a mutating operation that raises an error leaves the task
\* sequence, the counter and every task's id, dueDate and completed flag as
\* before the call, and the descriptions too unless the call is updateTask
\* with both a description and a dueDate and the error is that of the
\* dueDate: then only the target task's description has changed, to the trim
\* of the new description.
C1_AllOrNothingButDescription ==
    /\ [](\A id \in IdInputs, u \in UpdatesInputs :
            LET r == updateTask(Mgr, id, u)
                a == findTaskById(Mgr, id)
            IN  (r.error = ErrNewDueDate /\ "description" \in u.has)
                    => r.m.heap[a].description = Str(Trim(u.description.s)))
    /\ [][(last'.caller = "none" /\ last'.op \in MutatingOps /\ last'.error # NoError)
            => /\ tasks' = tasks
               /\ nextId' = nextId
               /\ \A i \in 1..Len(tasks) :
                    IF /\ last'.op = "updateTask"
                       /\ last'.error = ErrNewDueDate
                       /\ last'.has = {"description", "dueDate"}
                       /\ Num(heap[tasks[i]].id) = last'.id
                    THEN heap'[tasks[i]] =
                            [heap[tasks[i]] EXCEPT
                                !.description = heap'[tasks[i]].description]
                    ELSE heap'[tasks[i]] = heap[tasks[i]]]_vars

\* updateTask has thrown on the dueDate after taking a description.
C1_Witness ==
    /\ last.op = "updateTask"
    /\ last.caller = "none"
    /\ last.error = ErrNewDueDate
    /\ last.has = {"description", "dueDate"}
    /\ Len(tasks) = 2

---------------------------------------------------------------------------
\* C2: no two tasks of the collection share an id, no successful addTask
\* returns an id an earlier addTask returned (deleted since or not), and the
\* counter starts at 1 and never decreases.
C2_IdsNeverReused ==
    /\ nextId = 1
    /\ [](\A i, j \in 1..Len(tasks) :
            heap[tasks[i]].id = heap[tasks[j]].id => i = j)
    /\ [][/\ nextId' >= nextId
          /\ (Called("addTask") /\ last'.returned = "task")
                => heap'[last'.task].id \notin issued]_vars

\* addTask has returned a new id after an earlier task was deleted.
C2_Witness ==
    /\ last.op = "addTask"
    /\ last.returned = "task"
    /\ Cardinality(issued) > Len(tasks)
    /\ tasks # <<>>

\* C3: for a valid description and dueDate, in every reachable state, addTask
\* returns a task with the counter's value as id, the trimmed description,
\* the dueDate as given and completed false; it appends that task after the
\* tasks already there, which keep their places and fields; the collection is
\* one longer and the counter one higher.
C3_AddTaskAppends ==
    \A d \in DescriptionInputs, dd \in DueDateInputs :
        (ValidDescription(d) /\ ValidDueDate(dd)) =>
            LET r == addTask(Mgr, d, dd)
            IN  /\ r.error = NoError
                /\ r.returned = "task"
                /\ r.m.heap[r.task] =
                      [id |-> nextId, description |-> Str(Trim(d.s)),
                       dueDate |-> dd, completed |-> FALSE]
                /\ r.task \notin Range(tasks)
                /\ r.m.tasks = tasks \o <<r.task>>
                /\ Len(r.m.tasks) = Len(tasks) + 1
                /\ \A a \in Range(tasks) : r.m.heap[a] = heap[a]
                /\ r.m.nextId = nextId + 1

\* addTask has appended a task, its description trimmed, after another one.
C3_Witness ==
    /\ last.op = "addTask"
    /\ last.returned = "task"
    /\ Len(tasks) = 2
    /\ tasks[2] = last.task
    /\ heap[last.task].description = Str(<<"a">>)

\* C4: for an invalid description or dueDate, addTask raises a validation
\* error and changes neither the counter nor the collection, so that the
\* next successful addTask gets the id it would have got without the call.
C4_AddTaskRejects ==
    \A d \in DescriptionInputs, dd \in DueDateInputs :
        ~(ValidDescription(d) /\ ValidDueDate(dd)) =>
            LET r == addTask(Mgr, d, dd)
            IN  /\ r.error \in {ErrDescription, ErrDueDate}
                /\ r.returned = "none"
                /\ SameManager(Mgr, r.m)
                /\ \A v \in ValidAddInputs :
                     LET r2 == addTask(r.m, v[1], v[2])
                     IN  r2.returned = "task" /\ r2.m.heap[r2.task].id = nextId

\* addTask has thrown on a task list that is not empty.
C4_Witness ==
    /\ last.op = "addTask"
    /\ last.error = ErrDueDate
    /\ Len(tasks) = 1
    /\ nextId = 3

---------------------------------------------------------------------------
\* C5: in every reachable state the completed and the pending tasks that
\* listTasks returns partition the ones it returns for "all": each task of
\* the collection is in exactly one of the two, each of the two is in the
\* collection's order, the two merged in that order are the list for "all",
\* and listTasks changes nothing of the manager.
C5_ListsPartition ==
    LET Filter(str) == [given |-> TRUE, isString |-> TRUE, str |-> str]
        all == listTasks(Mgr, Filter("all"))
        completed == listTasks(Mgr, Filter("completed"))
        pending == listTasks(Mgr, Filter("pending"))
    IN  /\ all.returned = "array" /\ all.items = tasks
        /\ completed.returned = "array" /\ pending.returned = "array"
        /\ \A a \in Range(completed.items) : heap[a].completed
        /\ \A a \in Range(pending.items) : ~heap[a].completed
        /\ Range(completed.items) \cap Range(pending.items) = {}
        /\ Range(completed.items) \cup Range(pending.items) = Range(tasks)
        /\ completed.items = Restrict(tasks, Range(completed.items))
        /\ pending.items = Restrict(tasks, Range(pending.items))
        /\ Len(completed.items) + Len(pending.items) = Len(tasks)
        /\ \A f \in FilterInputs : listTasks(Mgr, f).m = Mgr

\* listTasks has returned the pending one of two tasks, the other completed.
C5_Witness ==
    /\ last.op = "listTasks"
    /\ last.returned = "array"
    /\ last.caller = "none"
    /\ Len(tasks) = 2
    /\ heap[tasks[1]].completed
    /\ ~heap[tasks[2]].completed
    /\ last.items = <<tasks[2]>>

C7_NotFound ==
    \A id \in IdInputs :
        ~Present(Mgr, id) =>
            /\ \A r \in {markTaskComplete(Mgr, id), markTaskIncomplete(Mgr, id),
                         deleteTask(Mgr, id)} :
                 r.error = ErrNotFound /\ r.returned = "none" /\ SameManager(Mgr, r.m)
            /\ \A u \in UpdatesInputs :
                 LET r == updateTask(Mgr, id, u)
                 IN  r.error = ErrNotFound /\ r.returned = "none"
                        /\ SameManager(Mgr, r.m)

\* updateTask has thrown not-found for the id of a task deleted earlier.
C7_Witness ==
    /\ last.op = "updateTask"
    /\ last.error = ErrNotFound
    /\ last.id = Num(1)
    /\ 1 \in issued
    /\ Len(tasks) = 1

\* C8: every task of the collection has a description that is not empty and
\* has no whitespace at either end, and a dueDate of four digits, a dash, two
\* digits, a dash and two digits.
C8_TasksWellFormed ==
    \A i \in 1..Len(tasks) :
        LET task == heap[tasks[i]]
        IN  /\ task.description.t = "string"
            /\ task.description.s # <<>>
            /\ Head(task.description.s) \notin WhiteSpace
            /\ task.description.s[Len(task.description.s)] \notin WhiteSpace
            /\ task.dueDate.t = "string"
            /\ Len(task.dueDate.s) = 10
            /\ \A k \in {1, 2, 3, 4, 6, 7, 9, 10} : task.dueDate.s[k] \in Digits
            /\ \A k \in {5, 8} : task.dueDate.s[k] = "-"

\* updateTask has thrown on one of two fields of a task.
C8_Witness ==
    /\ last.op = "updateTask"
    /\ last.error = ErrNewDescription
    /\ last.has = {"description", "dueDate"}
    /\ Len(tasks) = 2

---------------------------------------------------------------------------
\* C9: markTaskComplete, markTaskIncomplete and updateTask, given the id of a
\* task of the collection, change nothing but that task's own fields: the
\* mark operations only its completed flag (to true, to false; a second call
\* changes nothing more), updateTask only its description and its dueDate,
\* and of these only the ones updates holds (with no field in updates it
\* changes nothing and returns the task).  They never change an id, another
\* task, the order or the members of the collection, or the counter.
C9_OnlyTheTargetFields ==
    \A id \in IdInputs :
        Present(Mgr, id) =>
            LET a == findTaskById(Mgr, id)
                Frame(r) ==
                    /\ r.m.tasks = tasks
                    /\ r.m.nextId = nextId
                    /\ \A b \in Range(tasks) \ {a} : r.m.heap[b] = heap[b]
                    /\ r.m.heap[a].id = heap[a].id
                done == markTaskComplete(Mgr, id)
                undone == markTaskIncomplete(Mgr, id)
            IN  /\ Frame(done) /\ done.returned = "task" /\ done.task = a
                /\ done.m.heap[a] = [heap[a] EXCEPT !.completed = TRUE]
                /\ markTaskComplete(done.m, id) = done
                /\ Frame(undone) /\ undone.returned = "task" /\ undone.task = a
                /\ undone.m.heap[a] = [heap[a] EXCEPT !.completed = FALSE]
                /\ markTaskIncomplete(undone.m, id) = undone
                /\ \A u \in UpdatesInputs :
                     LET r == updateTask(Mgr, id, u)
                     IN  /\ Frame(r)
                         /\ r.m.heap[a].completed = heap[a].completed
                         /\ r.error = NoError =>
                              /\ r.returned = "task" /\ r.task = a
                              /\ r.m.heap[a].description =
                                    IF "description" \in u.has
                                    THEN Str(Trim(u.description.s))
                                    ELSE heap[a].description
                              /\ r.m.heap[a].dueDate =
                                    IF "dueDate" \in u.has THEN u.dueDate
                                    ELSE heap[a].dueDate
                         /\ (u.obj /\ u.has = {}) =>
                              r.error = NoError /\ r.m = Mgr /\ r.task = a

\* updateTask has returned the second of two tasks, given an object with no
\* field.
C9_Witness ==
    /\ last.op = "updateTask"
    /\ last.returned = "task"
    /\ last.has = {}
    /\ Len(tasks) = 2
    /\ last.task = tasks[2]

\* C10: the array listTasks returns is a new one that holds the manager's own
\* Task objects: a push onto it or a pop from it changes nothing of the
\* manager's collection, and a change made to a Task through it shows in the
\* Task the manager stores under that id.
C10_CopiedArraySharedTasks ==
    [][/\ (Called("listTasks") /\ last'.returned = "array")
            => /\ ~last'.shared
               /\ Range(last'.items) \subseteq Range(tasks')
               /\ SameManager(Mgr, Mgr')
       /\ last'.caller \in {"push", "pop"}
            => /\ last'.items # last.items
               /\ tasks' = tasks
               /\ Len(tasks') = Len(tasks)
               /\ SameManager(Mgr, Mgr')
       /\ last'.caller \in TaskMethods
            => \A i \in 1..Len(last.items), method \in TaskMethods :
                 \A arg \in MethodInputs(method) :
                    CallerInvoke(i, method, arg) =>
                        LET a == last.items[i]
                            stored == findTaskById(Mgr', Num(heap[a].id))
                        IN  /\ stored = a
                            /\ heap'[stored] = Invoke(heap[a], method, arg)]_vars

\* The caller has pushed a Task of its own onto the array of the two tasks.
C10_Witness ==
    /\ last.caller = "push"
    /\ Len(tasks) = 2
    /\ Len(last.items) = 3
    /\ heap[last.items[3]].id = ForeignId

---------------------------------------------------------------------------
=============================================================================
